---- MODULE Spec2Model ----
(***************************************************************************)
(* A model of crypto_mcp.py: the time-keyed, file-persisted CryptoCache    *)
(* shared by the two market-data clients, and the payload codec yt().      *)
(***************************************************************************)
EXTENDS Integers, Sequences, FiniteSets, TLC

VARIABLES
    now,        \* wall clock, datetime.now(), in minutes
    proc,       \* "down" | "up" | "crashed": the server process
    cache,      \* cache[c]: the dict self.cache of client c's CryptoCache
    file,       \* the content of CACHE_FILE (crypto_cache.pkl)
    latest,     \* history: for every key ever set, the last (timestamp, data)
    saveFailures, \* history: how many _save_cache() calls have failed
    last,       \* the last operation and what it returned
    \* one call yt(encrypted_text, key):
    AES,            \* whether the global name AES is bound when yt runs
    encrypted_text, \* argument: None or base64 text
    yt_key,         \* argument key: the key text
    sent,           \* history: what the vendor encrypted to make encrypted_text
    pc,             \* "idle" | "call" | "trim" | "done"
    decrypted_bytes, \* decrypt_aes: cipher.decrypt's result, once computed
    unpadded,       \* decrypt_aes: decrypted_bytes[:-padding_len], once computed
    decrypted_text, \* yt: what decrypt_aes returned
    result,         \* what yt returned or raised
    \* one Coinglass time-series call, from the symbol lookup on:
    method,         \* get_kline_data | get_position_info | get_trade_volume
                    \* | get_trade_amount
    symbol,         \* argument: the coin symbol
    granularity,    \* argument: the granularity token
    lookback_count, \* argument: how many buckets
    rpc,            \* "idle" | "range" | "normalize" | "url" | "done"
    time_range,     \* what calculate_time_range returned or raised
    api_granularity, \* what normalize_granularity returned
    url,            \* the URL handed to get_coinglass_data
    log,            \* history: the tool calls served, each with the client
                    \* calls it made and the text it returned
    upstream        \* what the vendors' answers hold, once parsed and once
                    \* decrypted by yt in this process

cacheVars == <<now, proc, cache, file, latest, saveFailures, last>>
codecVars == <<AES, encrypted_text, yt_key, sent, pc, decrypted_bytes, unpadded,
               decrypted_text, result>>
rangeVars == <<method, symbol, granularity, lookback_count, rpc, time_range,
               api_granularity, url>>
vars == <<cacheVars, codecVars, rangeVars, log, upstream>>

----------------------------------------------------------------------------
(* Bounds *)

MaxNow == 30            \* the clock stops here
MaxSaveFailures == 1    \* file-system write failures explored per run
Keys == {"k1", "k2"}
Values == {"v1", "v2"}
Ticks == {15}           \* minutes the clock advances in one step

----------------------------------------------------------------------------
(* CryptoCache *)

None == "None"
EmptyMap == << >>

\* The two CryptoCache objects of the process: crypto_service.cache and
\* crypto_service.coinglass_service.cache.
Clients == {"price", "coinglass"}

DefaultCacheDuration == 30
CoinglassCacheDuration == 15

\* self.cache_duration of each object, in minutes
cache_duration(c) ==
    IF c = "coinglass" THEN CoinglassCacheDuration ELSE DefaultCacheDuration

\* Both objects read and write the one module-level path CACHE_FILE.
\* File contents: no file, a pickled dict, or bytes/permissions on which
\* open()/pickle.load() raise.
MapFile(m) == [kind |-> "map", map |-> m]
BadFile(kind) == [kind |-> kind, map |-> EmptyMap]
BadKinds == {"missing", "truncated", "badpickle", "unreadable", "badvalue"}

\* What open(CACHE_FILE, "rb") + pickle.load(f) raise on each content.
LoadError(f) ==
    CASE f.kind = "truncated"  -> "EOFError"
      [] f.kind = "badpickle"  -> "UnpicklingError"
      [] f.kind = "unreadable" -> "PermissionError"
      [] f.kind = "badvalue"   -> "ValueError"
      [] OTHER                 -> None

\* except (pickle.PickleError, EOFError)
LoadCaught(e) == e \in {"EOFError", "UnpicklingError"}

\* _load_cache(): [err, map], err the exception that leaves the constructor
_load_cache(f) ==
    IF f.kind = "missing" THEN [err |-> None, map |-> EmptyMap]
    ELSE IF f.kind = "map" THEN [err |-> None, map |-> f.map]
    ELSE IF LoadCaught(LoadError(f)) THEN [err |-> None, map |-> EmptyMap]
    ELSE [err |-> LoadError(f), map |-> EmptyMap]

\* A get() that still serves an entry whose age equals the TTL.
FreshInclusive(c, timestamp, t) == t - timestamp <= cache_duration(c)

\* get(key): the data, or None
Fresh(c, timestamp, t) == t - timestamp < cache_duration(c)

get(c, m, key, t) ==
    IF key \in DOMAIN m /\ Fresh(c, m[key][1], t) THEN m[key][2] ELSE None

\* A set() that keeps an entry the map already holds.
StoreIfAbsent(m, key, data, t) ==
    IF key \in DOMAIN m THEN m ELSE (key :> <<t, data>>) @@ m

\* self.cache[key] = (datetime.now(), data)
Store(m, key, data, t) == (key :> <<t, data>>) @@ m

\* _save_cache(): the file after open(CACHE_FILE, "wb") + pickle.dump, by
\* what the file system does; every exception is printed and swallowed
SaveOutcomes == {"ok", "open_fails", "dump_fails"}

_save_cache(m, f, io) ==
    CASE io = "ok"         -> MapFile(m)
      [] io = "open_fails" -> f
      [] io = "dump_fails" -> BadFile("truncated")

----------------------------------------------------------------------------
(* The payload codec yt(): values *)

\* Bytes are numbers 0..255, byte strings sequences of them; a str is the
\* sequence of its code points; base64 text is the sequence of its
\* characters' alphabet indices 0..63, with B64Pad for '=' and B64Other for
\* a character outside the alphabet.
Nothing == << >>
Just(x) == <<x>>
IsSet(o) == o # Nothing
Val(o) == o[1]

B64Pad == 64
B64Other == 65
BlockSize == 16
GzipMagic1 == 31
GzipMagic2 == 139
GzipDeflate == 8
DoubleQuote == 34
ReplacementChar == 65533

\* What a call returns or raises: cause is the chain of the exceptions the
\* raised one was built from, innermost last.
Str(t) == [kind |-> "str", text |-> t, type |-> "", cause |-> << >>]
NoneValue == [kind |-> "None", text |-> << >>, type |-> "", cause |-> << >>]
Raise(type, cause) ==
    [kind |-> "raise", text |-> << >>, type |-> type, cause |-> cause]
NotCalled == [kind |-> "idle", text |-> << >>, type |-> "", cause |-> << >>]

Butlast(q, n) == SubSeq(q, 1, Len(q) - n)

----------------------------------------------------------------------------
(* base64.b64decode *)

\* b64decode(s) without validate: characters outside the alphabet are
\* discarded; binascii.Error on a lone trailing character or missing '='.
B64Data(s) == SelectSeq(s, LAMBDA ch : ch < B64Pad)
B64Pads(s) == Len(SelectSeq(s, LAMBDA ch : ch = B64Pad))

B64Malformed(s) ==
    LET r == Len(B64Data(s)) % 4 IN
    \/ r = 1
    \/ r = 2 /\ B64Pads(s) < 2
    \/ r = 3 /\ B64Pads(s) < 1

\* The byte at position i (1-based) of the decoded string.
B64Byte(d, i) ==
    LET g == 4 * ((i - 1) \div 3)
        j == (i - 1) % 3
        x(n) == IF g + n <= Len(d) THEN d[g + n] ELSE 0
        v == ((x(1) * 64 + x(2)) * 64 + x(3)) * 64 + x(4)
    IN CASE j = 0 -> v \div 65536
         [] j = 1 -> (v \div 256) % 256
         [] j = 2 -> v % 256

b64decode(s) ==
    LET d == B64Data(s)
        r == Len(d) % 4
        n == 3 * (Len(d) \div 4) + (IF r = 0 THEN 0 ELSE r - 1)
    IN [i \in 1..n |-> B64Byte(d, i)]

----------------------------------------------------------------------------
(* AES in ECB mode *)

\* key.encode("utf-8") and bytes.decode("utf-8")
Utf8Bytes(cp) ==
    IF cp < 128 THEN <<cp>>
    ELSE IF cp < 2048 THEN <<192 + (cp \div 64), 128 + (cp % 64)>>
    ELSE IF cp < 65536
         THEN <<224 + (cp \div 4096), 128 + ((cp \div 64) % 64), 128 + (cp % 64)>>
    ELSE <<240 + (cp \div 262144), 128 + ((cp \div 4096) % 64),
           128 + ((cp \div 64) % 64), 128 + (cp % 64)>>

RECURSIVE encode_utf8(_)
encode_utf8(t) ==
    IF t = << >> THEN << >> ELSE Utf8Bytes(Head(t)) \o encode_utf8(Tail(t))

\* AES.new accepts keys of 16, 24 and 32 bytes.
AcceptedKeyLength(kb) == Len(kb) \in {16, 24, 32}

\* The block cipher is the library's; here it is a keyed bijection on
\* 16-byte blocks, applied to each block on its own (ECB): the byte at
\* position i of a plaintext block is moved one place and shifted by the
\* key bytes of that place.
SubKey(kb, i) ==
    LET idx == {j \in 1..Len(kb) : (j - 1) % BlockSize = i - 1}
        RECURSIVE Sum(_)
        Sum(S) == IF S = {} THEN 0
                  ELSE LET j == CHOOSE x \in S : TRUE IN kb[j] + Sum(S \ {j})
    IN Sum(idx) % 256

CipherPlace(i) ==
    LET blk == (i - 1) \div BlockSize
        off == (i - 1) % BlockSize
    IN blk * BlockSize + ((off + 1) % BlockSize) + 1

\* cipher.decrypt(data), for data of a whole number of blocks
cipher_decrypt(kb, data) ==
    [i \in 1..Len(data) |->
        LET j == CipherPlace(i) IN
        (data[j] - SubKey(kb, ((j - 1) % BlockSize) + 1)) % 256]

----------------------------------------------------------------------------
(* UTF-8 decoding *)

Continuation(bs, i, lo, hi) == i <= Len(bs) /\ lo <= bs[i] /\ bs[i] <= hi

\* The code unit that starts at bs[i]: its code point, the bytes it takes,
\* and whether it is well formed; an ill-formed unit is the longest prefix
\* of a sequence that could have been well formed.
Utf8Unit(bs, i) ==
    LET b == bs[i]
        need == CASE 194 <= b /\ b <= 223 -> 1
                  [] 224 <= b /\ b <= 239 -> 2
                  [] 240 <= b /\ b <= 244 -> 3
                  [] OTHER -> 0
        lo == IF b = 224 THEN 160 ELSE IF b = 240 THEN 144 ELSE 128
        hi == IF b = 237 THEN 159 ELSE IF b = 244 THEN 143 ELSE 191
        c(n) == bs[i + n] - 128
        bad(n) == [cp |-> ReplacementChar, len |-> n, ok |-> FALSE]
    IN IF b < 128 THEN [cp |-> b, len |-> 1, ok |-> TRUE]
       ELSE IF need = 0 \/ ~Continuation(bs, i + 1, lo, hi) THEN bad(1)
       ELSE IF need = 1
            THEN [cp |-> (b - 192) * 64 + c(1), len |-> 2, ok |-> TRUE]
       ELSE IF ~Continuation(bs, i + 2, 128, 191) THEN bad(2)
       ELSE IF need = 2
            THEN [cp |-> (b - 224) * 4096 + c(1) * 64 + c(2),
                  len |-> 3, ok |-> TRUE]
       ELSE IF ~Continuation(bs, i + 3, 128, 191) THEN bad(3)
       ELSE [cp |-> (b - 240) * 262144 + c(1) * 4096 + c(2) * 64 + c(3),
             len |-> 4, ok |-> TRUE]

RECURSIVE Utf8From(_, _)
Utf8From(bs, i) ==
    IF i > Len(bs) THEN << >>
    ELSE LET u == Utf8Unit(bs, i) IN <<u.cp>> \o Utf8From(bs, i + u.len)

RECURSIVE Utf8ValidFrom(_, _)
Utf8ValidFrom(bs, i) ==
    IF i > Len(bs) THEN TRUE
    ELSE LET u == Utf8Unit(bs, i) IN u.ok /\ Utf8ValidFrom(bs, i + u.len)

\* bytes.decode("utf-8", errors="replace"): never raises
decode_replace(bs) == Str(Utf8From(bs, 1))

\* bytes.decode("utf-8"): raises UnicodeDecodeError
decode_strict(bs) ==
    IF Utf8ValidFrom(bs, 1) THEN Str(Utf8From(bs, 1))
    ELSE Raise("UnicodeDecodeError", << >>)

----------------------------------------------------------------------------
(* gzip *)

\* A gzip member, reduced to what the reader checks: the two magic bytes,
\* the compression method, the length of the stored payload, the payload
\* and a check byte over it.
RECURSIVE ByteSum(_)
ByteSum(bs) == IF bs = << >> THEN 0 ELSE Head(bs) + ByteSum(Tail(bs))

GzipHeaderLen == 4

\* gzip.GzipFile(fileobj=f, mode="rb").read()
gzip_read(bs) ==
    IF Len(bs) >= 2 /\ (bs[1] # GzipMagic1 \/ bs[2] # GzipMagic2)
    THEN Raise("BadGzipFile", << >>)
    ELSE IF Len(bs) < GzipHeaderLen THEN Raise("EOFError", << >>)
    ELSE IF bs[3] # GzipDeflate THEN Raise("BadGzipFile", << >>)
    ELSE IF Len(bs) < GzipHeaderLen + bs[4] + 1 THEN Raise("EOFError", << >>)
    ELSE LET payload == SubSeq(bs, GzipHeaderLen + 1, GzipHeaderLen + bs[4])
         IN IF Len(bs) > GzipHeaderLen + bs[4] + 1
               \/ bs[GzipHeaderLen + bs[4] + 1] # ByteSum(payload) % 256
            THEN Raise("BadGzipFile", << >>)
            ELSE [kind |-> "bytes", text |-> payload, type |-> "",
                  cause |-> << >>]

\* except Exception as e: raise Exception(f"...: {str(e)}")
Wrapped(e) == Raise("Exception", <<e.type>> \o e.cause)

decompress_gzip(byte_array) ==
    LET g == gzip_read(byte_array) IN
    IF g.kind = "raise" THEN Wrapped(g)
    ELSE LET t == decode_strict(g.text) IN
         IF t.kind = "raise" THEN Wrapped(t) ELSE t

----------------------------------------------------------------------------
(* yt *)

\* A padding check that looks at the last byte only.
PaddingLengthInRange(d) ==
    LET padding_len == d[Len(d)] IN
    padding_len >= 1 /\ padding_len <= BlockSize

\* Lines 111-118: the padding length is in 1..16 and each of the last
\* padding_len bytes equals it.
PaddingOk(d) ==
    LET padding_len == d[Len(d)] IN
    /\ ~(padding_len > BlockSize \/ padding_len < 1)
    /\ \A i \in 1..padding_len : d[Len(d) + 1 - i] = padding_len

\* Lines 123-127
IsGzip(bs) == Len(bs) > 2 /\ bs[1] = GzipMagic1 /\ bs[2] = GzipMagic2

DecryptAesResult(d, u, out) == [decrypted |-> d, unpadded |-> u, out |-> out]

\* decrypt_aes(encrypted_text, key), with the bytes it computed on the way
decrypt_aes(text, k, aesBound) ==
    LET kb == encode_utf8(k) IN
    IF ~aesBound
    THEN DecryptAesResult(Nothing, Nothing, Raise("NameError", << >>))
    ELSE IF ~AcceptedKeyLength(kb)
    THEN DecryptAesResult(Nothing, Nothing, Raise("ValueError", << >>))
    ELSE IF B64Malformed(text)
    THEN DecryptAesResult(Nothing, Nothing,
                          Wrapped(Raise("binascii.Error", << >>)))
    ELSE LET encrypted_bytes == b64decode(text) IN
    IF Len(encrypted_bytes) % BlockSize # 0
    THEN DecryptAesResult(Nothing, Nothing,
                          Wrapped(Raise("ValueError", << >>)))
    ELSE LET d == cipher_decrypt(kb, encrypted_bytes) IN
    IF d = << >>
    THEN DecryptAesResult(Just(d), Nothing,
                          Wrapped(Raise("IndexError", << >>)))
    ELSE IF ~PaddingOk(d)
    THEN DecryptAesResult(Just(d), Nothing,
                          Wrapped(Raise("ValueError", << >>)))
    ELSE LET u == Butlast(d, d[Len(d)]) IN
    IF IsGzip(u)
    THEN LET g == decompress_gzip(u) IN
         DecryptAesResult(Just(d), Just(u),
                          IF g.kind = "raise" THEN Wrapped(g) ELSE g)
    ELSE DecryptAesResult(Just(d), Just(u), decode_replace(u))

\* A trim that forgets the trailing quote.
trim_leading_quote(t) ==
    IF t = << >> THEN Str(t)
    ELSE Str(IF t[1] = DoubleQuote THEN Tail(t) ELSE t)

\* Lines 147-153: drop one leading and one trailing double quote
trim_quotes(t) ==
    IF t = << >> THEN Str(t)
    ELSE LET t1 == IF t[1] = DoubleQuote THEN Tail(t) ELSE t IN
         IF t1 = << >> THEN Raise("IndexError", << >>)
         ELSE IF t1[Len(t1)] = DoubleQuote THEN Str(Butlast(t1, 1))
         ELSE Str(t1)

----------------------------------------------------------------------------
(* calculate_time_range and normalize_granularity *)

\* Python's str methods on a str given as its code points.
endswith(s, ch) == s # << >> /\ s[Len(s)] = ch

\* str.lower() and str.upper(), on the ASCII letters
lower(s) ==
    [i \in 1..Len(s) |-> IF 65 <= s[i] /\ s[i] <= 90 THEN s[i] + 32 ELSE s[i]]

upper(s) ==
    [i \in 1..Len(s) |-> IF 97 <= s[i] /\ s[i] <= 122 THEN s[i] - 32 ELSE s[i]]

\* s[::-1]
reverse(s) == [i \in 1..Len(s) |-> s[Len(s) + 1 - i]]

IsDigit(ch) == 48 <= ch /\ ch <= 57

RECURSIVE Decimal(_)
Decimal(ds) ==
    IF ds = << >> THEN 0
    ELSE Decimal(Butlast(ds, 1)) * 10 + (ds[Len(ds)] - 48)

IntValue(n) == [kind |-> "int", n |-> n]
IntRaise == [kind |-> "raise", n |-> 0]

\* int(s) of a str: an optional sign and ASCII decimal digits give the
\* number; the empty str and every other character give ValueError.
int(s) ==
    LET signed == s # << >> /\ s[1] \in {43, 45}
        ds == IF signed THEN Tail(s) ELSE s
    IN IF ds = << >> \/ \E i \in 1..Len(ds) : ~IsDigit(ds[i]) THEN IntRaise
       ELSE IntValue(IF signed /\ s[1] = 45 THEN 0 - Decimal(ds)
                     ELSE Decimal(ds))

Token1w == <<49, 119>>      \* "1w"
LetterD == 100
LetterH == 104
LetterM == 109

\* int(now.timestamp() * 1000), the clock being in minutes
MillisPerMinute == 60 * 1000

TimeRange(start_time, end_time) ==
    [kind |-> "tuple", start_time |-> start_time, end_time |-> end_time,
     type |-> ""]
RangeRaise(type) ==
    [kind |-> "raise", start_time |-> 0, end_time |-> 0, type |-> type]
NoRange == [kind |-> "idle", start_time |-> 0, end_time |-> 0, type |-> ""]

\* Lines 169-183: seconds_per_unit, or nothing where int() raises
seconds_per_unit(g) ==
    LET magnitude == int(Butlast(g, 1))
        times(unit) == IF magnitude.kind = "raise" THEN Nothing
                       ELSE Just(magnitude.n * unit)
    IN IF g = Token1w THEN Just(7 * 24 * 60 * 60)
       ELSE IF endswith(g, LetterD) THEN times(24 * 60 * 60)
       ELSE IF endswith(g, LetterH) THEN times(60 * 60)
       ELSE IF endswith(g, LetterM) THEN times(60)
       ELSE Just(60 * 60)

\* calculate_time_range(granularity, lookback_count) at clock t
calculate_time_range(g, n, t) ==
    LET end_time == t * MillisPerMinute
        s == seconds_per_unit(g)
    IN IF ~IsSet(s) THEN RangeRaise("ValueError")
       ELSE TimeRange(end_time - (Val(s) * n * 1000), end_time)

\* A normalisation that keeps the letter case.
normalize_keep_case(g) == IF g = Token1w THEN g ELSE reverse(g)

\* normalize_granularity(granularity)
normalize_granularity(g) ==
    LET l == lower(g) IN IF l = Token1w THEN l ELSE reverse(l)

\* The URLs of the Coinglass client, by their parts.
Url(host, path, sym, series, interval, endTime, startTime, limit) ==
    [host |-> host, path |-> path, symbol |-> sym, series |-> series,
     interval |-> interval, endTime |-> endTime, startTime |-> startTime,
     limit |-> limit]

NoUrl == Url("", "", << >>, "", << >>, 0, 0, 0)

WindowedMethods == {"get_kline_data", "get_position_info", "get_trade_volume"}
SeriesMethods == WindowedMethods \cup {"get_trade_amount"}

SeriesOf(m) ==
    CASE m = "get_kline_data"    -> "kline"
      [] m = "get_position_info" -> "oi_kline"
      [] m = "get_trade_volume"  -> "buy_sell_qty_kline"
      [] m = "get_trade_amount"  -> "aggregated_spot_buy_sell_usd"

\* Lines 346, 368, 389: the URL of a windowed series
series_url(m, exName, pair, interval, range) ==
    Url("fapi.coinglass.com", "/api/v2/kline", <<exName, pair>>, SeriesOf(m),
        interval, range.end_time, range.start_time, 0)

\* Line 405: the URL of get_trade_amount
trade_amount_url(symbol_upper, interval, n) ==
    Url("capi.coinglass.com", "/api/v2/kline", <<symbol_upper>>,
        SeriesOf("get_trade_amount"), interval, 0, 0, n)

RangeIdle ==
    /\ method = ""
    /\ symbol = << >>
    /\ granularity = << >>
    /\ lookback_count = 0
    /\ rpc = "idle"
    /\ time_range = NoRange
    /\ api_granularity = Nothing
    /\ url = NoUrl
    /\ log = << >>

----------------------------------------------------------------------------
(* Python values and json.loads *)

\* Beside str and None: int, list (its items) and dict (its key-value
\* pairs, keys being strs given as their code points).
PyInt(n) == [kind |-> "int", text |-> <<n>>, type |-> "", cause |-> << >>]
PyList(items) == [kind |-> "list", text |-> items, type |-> "", cause |-> << >>]
PyDict(pairs) == [kind |-> "dict", text |-> pairs, type |-> "", cause |-> << >>]

\* bool(v), as in "if cached_data:" and "if not data"
truthy(v) ==
    CASE v.kind = "None" -> FALSE
      [] v.kind = "int"  -> v.text # <<0>>
      [] OTHER           -> v.text # << >>

\* key in d, for a dict d
HasKey(d, k) == \E i \in 1..Len(d.text) : d.text[i][1] = k

\* d[key] and d.get(key), for a dict d that has the key
Lookup(d, k) ==
    LET i == CHOOSE j \in 1..Len(d.text) :
                 d.text[j][1] = k /\ \A n \in (j + 1)..Len(d.text) : d.text[n][1] # k
    IN d.text[i][2]

\* json.loads(s) for a str s, reduced to integers, strings without escapes,
\* null, arrays and objects, written without white space.
ParseFail == [ok |-> FALSE, val |-> NoneValue, next |-> 0]
Parsed(v, next) == [ok |-> TRUE, val |-> v, next |-> next]
At(t, i) == IF i >= 1 /\ i <= Len(t) THEN t[i] ELSE 0

ParseString(t, i) ==
    LET closing == {j \in (i + 1)..Len(t) : t[j] = DoubleQuote} IN
    IF At(t, i) # DoubleQuote \/ closing = {} THEN ParseFail
    ELSE LET j == CHOOSE x \in closing : \A y \in closing : x <= y IN
         IF \E n \in (i + 1)..(j - 1) : t[n] = 92 \/ t[n] < 32 THEN ParseFail
         ELSE Parsed(Str(SubSeq(t, i + 1, j - 1)), j + 1)

ParseNumber(t, i) ==
    LET first == IF At(t, i) = 45 THEN i + 1 ELSE i
        stop == CHOOSE j \in first..(Len(t) + 1) :
                    /\ \A n \in first..(j - 1) : IsDigit(t[n])
                    /\ ~IsDigit(At(t, j))
        end == IF At(t, first) = 48 THEN first + 1 ELSE stop
        n == Decimal(SubSeq(t, first, end - 1))
    IN IF ~IsDigit(At(t, first)) THEN ParseFail
       ELSE Parsed(PyInt(IF first > i THEN 0 - n ELSE n), end)

RECURSIVE ParseValue(_, _), ParseItems(_, _, _), ParsePairs(_, _, _)
ParseValue(t, i) ==
    LET ch == At(t, i) IN
    CASE ch = 91 -> IF At(t, i + 1) = 93 THEN Parsed(PyList(<< >>), i + 2)
                    ELSE ParseItems(t, i + 1, << >>)
      [] ch = 123 -> IF At(t, i + 1) = 125 THEN Parsed(PyDict(<< >>), i + 2)
                     ELSE ParsePairs(t, i + 1, << >>)
      [] ch = DoubleQuote -> ParseString(t, i)
      [] ch = 45 \/ IsDigit(ch) -> ParseNumber(t, i)
      [] ch = 110 -> IF i + 3 <= Len(t)
                        /\ SubSeq(t, i, i + 3) = <<110, 117, 108, 108>>
                     THEN Parsed(NoneValue, i + 4) ELSE ParseFail
      [] OTHER -> ParseFail

ParseItems(t, i, acc) ==
    LET r == ParseValue(t, i) IN
    IF ~r.ok THEN ParseFail
    ELSE IF At(t, r.next) = 44 THEN ParseItems(t, r.next + 1, Append(acc, r.val))
    ELSE IF At(t, r.next) = 93
         THEN Parsed(PyList(Append(acc, r.val)), r.next + 1)
    ELSE ParseFail

ParsePairs(t, i, acc) ==
    LET k == ParseString(t, i) IN
    IF ~k.ok \/ At(t, k.next) # 58 THEN ParseFail
    ELSE LET r == ParseValue(t, k.next + 1) IN
         IF ~r.ok THEN ParseFail
         ELSE LET pairs == Append(acc, <<k.val.text, r.val>>) IN
              IF At(t, r.next) = 44 THEN ParsePairs(t, r.next + 1, pairs)
              ELSE IF At(t, r.next) = 125
                   THEN Parsed(PyDict(pairs), r.next + 1)
              ELSE ParseFail

json_loads(s) ==
    LET r == ParseValue(s, 1) IN
    IF r.ok /\ r.next = Len(s) + 1 THEN r.val
    ELSE Raise("JSONDecodeError", << >>)

----------------------------------------------------------------------------
(* The vendor's side: what is encrypted and sent *)

\* The inverse of cipher_decrypt.
PlainPlace(j) ==
    LET blk == (j - 1) \div BlockSize
        off == (j - 1) % BlockSize
    IN blk * BlockSize + ((off + BlockSize - 1) % BlockSize) + 1

encrypt(kb, data) ==
    [j \in 1..Len(data) |->
        (data[PlainPlace(j)] + SubKey(kb, ((j - 1) % BlockSize) + 1)) % 256]

\* Padding to a whole number of blocks: PKCS7, or one of three wrong ways.
PadModes == {"pkcs7", "zero", "over", "mixed"}

Pad(m, mode) ==
    LET n == BlockSize - (Len(m) % BlockSize) IN
    m \o [i \in 1..n |->
            CASE mode = "pkcs7" -> n
              [] mode = "zero"  -> 0
              [] mode = "over"  -> BlockSize + 1
              [] mode = "mixed" -> IF i = 1 /\ n > 1 THEN n + 1 ELSE n]

b64encode(bs) ==
    LET full == Len(bs) \div 3
        r == Len(bs) % 3
        x(i) == IF i <= Len(bs) THEN bs[i] ELSE 0
        sextet(n) ==
            LET g == 3 * ((n - 1) \div 4)
                v == (x(g + 1) * 256 + x(g + 2)) * 256 + x(g + 3)
                j == (n - 1) % 4
            IN CASE j = 0 -> v \div 262144
                 [] j = 1 -> (v \div 4096) % 64
                 [] j = 2 -> (v \div 64) % 64
                 [] j = 3 -> v % 64
        nData == 4 * full + (IF r = 0 THEN 0 ELSE r + 1)
        nPad == IF r = 0 THEN 0 ELSE 3 - r
    IN [n \in 1..nData |-> sextet(n)] \o [n \in 1..nPad |-> B64Pad]

\* How the ciphertext reaches yt: as its base64, with a line break added,
\* with the last character lost, with the last ciphertext byte lost, as the
\* empty string, or not at all (None).
WireModes == {"b64", "newline", "cut", "unaligned", "empty", "None"}

Wire(c, mode) ==
    CASE mode = "b64"       -> Just(b64encode(c))
      [] mode = "newline"   -> Just(b64encode(c) \o <<B64Other>>)
      [] mode = "cut"       -> Just(Butlast(b64encode(c), 1))
      [] mode = "unaligned" -> Just(b64encode(Butlast(c, 1)))
      [] mode = "empty"     -> Just(<< >>)
      [] mode = "None"      -> Nothing

Gzip(payload) ==
    <<GzipMagic1, GzipMagic2, GzipDeflate, Len(payload)>> \o payload
        \o <<ByteSum(payload) % 256>>

Letters(n) == [i \in 1..n |-> 96 + i]

Messages ==
    { << >>, <<DoubleQuote>>, <<97>>, <<DoubleQuote, 97, DoubleQuote>>,
      <<DoubleQuote, 97>>, <<97, DoubleQuote>>, <<DoubleQuote, DoubleQuote>>,
      <<DoubleQuote, DoubleQuote, 97, DoubleQuote, DoubleQuote>>,
      <<123, 34, 112, 34, 58, 49, 125>>,
      <<GzipMagic1, GzipMagic2>>, <<GzipMagic1, GzipMagic2, GzipDeflate>>,
      <<GzipMagic1, 97, 98>>,
      Gzip(<<97>>), Gzip(<<DoubleQuote, 97, DoubleQuote>>), Gzip(<<255>>),
      Gzip(<< >>), Butlast(Gzip(<<97>>), 1) \o <<0>>,
      <<255, 97>>, <<195, 169>>, <<226, 130, 97>>,
      Letters(15), Letters(16) }

Key16 == [i \in 1..16 |-> 47 + i]
Key24 == [i \in 1..24 |-> 64 + i]
Key32 == [i \in 1..32 |-> 32 + i]
KeyShort == <<97, 98, 99, 100, 101>>
KeyWide == [i \in 1..14 |-> 97] \o <<233>>      \* 15 characters, 16 bytes

EncKeys == {Key16, Key32}
DecKeys == {Key16, Key24, Key32, KeyShort, KeyWide}

Sendings == [plain : Messages, pad : PadModes, key : EncKeys, wire : WireModes]

NotSent == [plain |-> << >>, pad |-> "", key |-> << >>, wire |-> ""]

Sent(x) == Wire(encrypt(encode_utf8(x.key), Pad(x.plain, x.pad)), x.wire)

----------------------------------------------------------------------------
(* The cache and the process that owns it *)

NoOp == [op |-> "init", c |-> None, key |-> None, data |-> None,
         ret |-> None, io |-> None, err |-> None]

CodecIdle ==
    /\ AES = FALSE
    /\ encrypted_text = Nothing
    /\ yt_key = << >>
    /\ sent = NotSent
    /\ pc = "idle"
    /\ decrypted_bytes = Nothing
    /\ unpadded = Nothing
    /\ decrypted_text = NotCalled
    /\ result = NotCalled

CacheInit ==
    /\ now = 0
    /\ proc = "down"
    /\ cache = [c \in Clients |-> EmptyMap]
    /\ file \in {BadFile(k) : k \in BadKinds} \cup {MapFile(EmptyMap)}
    /\ latest = EmptyMap
    /\ saveFailures = 0
    /\ last = NoOp

Init == CacheInit /\ CodecIdle /\ RangeIdle /\ upstream = << >>

\* crypto_service = AdvancedCryptoPriceService(): constructs its own
\* CryptoCache() and then CoinglassService(), which constructs CryptoCache(15)
Start ==
    /\ proc = "down"
    /\ LET r == _load_cache(file) IN
        /\ proc' = IF r.err = None THEN "up" ELSE "crashed"
        /\ cache' = [c \in Clients |-> r.map]
        /\ last' = [NoOp EXCEPT !.op = "start", !.err = r.err]
    /\ UNCHANGED <<now, file, latest, saveFailures>>
    /\ UNCHANGED <<codecVars, rangeVars, log, upstream>>

\* The process ends; its memory is gone, the file stays.
Stop ==
    /\ proc = "up"
    /\ proc' = "down"
    /\ cache' = [c \in Clients |-> EmptyMap]
    /\ last' = [NoOp EXCEPT !.op = "stop"]
    /\ UNCHANGED <<now, file, latest, saveFailures>>
    /\ UNCHANGED <<codecVars, rangeVars, log, upstream>>

Get(c, key) ==
    /\ proc = "up"
    /\ last' = [NoOp EXCEPT !.op = "get", !.c = c, !.key = key,
                            !.ret = get(c, cache[c], key, now)]
    /\ UNCHANGED <<now, proc, cache, file, latest, saveFailures>>
    /\ UNCHANGED <<codecVars, rangeVars, log, upstream>>

Set(c, key, data, io) ==
    /\ proc = "up"
    /\ cache' = [cache EXCEPT ![c] = Store(cache[c], key, data, now)]
    /\ file' = _save_cache(cache'[c], file, io)
    /\ latest' = (key :> <<now, data>>) @@ latest
    /\ io # "ok" => saveFailures < MaxSaveFailures
    /\ saveFailures' = IF io = "ok" THEN saveFailures ELSE saveFailures + 1
    /\ last' = [NoOp EXCEPT !.op = "set", !.c = c, !.key = key,
                            !.data = data, !.io = io]
    /\ UNCHANGED <<now, proc>>
    /\ UNCHANGED <<codecVars, rangeVars, log, upstream>>

Tick(d) ==
    /\ now + d <= MaxNow
    /\ now' = now + d
    /\ last' = [NoOp EXCEPT !.op = "tick"]
    /\ UNCHANGED <<proc, cache, file, latest, saveFailures>>
    /\ UNCHANGED <<codecVars, rangeVars, log, upstream>>

Next ==
    \/ Start
    \/ Stop
    \/ \E c \in Clients, key \in Keys : Get(c, key)
    \/ \E c \in Clients, key \in Keys, data \in Values, io \in SaveOutcomes :
          Set(c, key, data, io)
    \/ \E d \in Ticks : Tick(d)

Spec == Init /\ [][Next]_vars

----------------------------------------------------------------------------
(* One call of yt on what the vendor sent *)

\* The module imports neither Crypto.Cipher nor any other binding of the
\* name AES (lines 4-14): line 102 raises NameError unless the hosting
\* process has put AES into the module's or the builtins' namespace.
CodecInit ==
    /\ now = 0
    /\ proc = "down"
    /\ cache = [c \in Clients |-> EmptyMap]
    /\ file = MapFile(EmptyMap)
    /\ latest = EmptyMap
    /\ saveFailures = 0
    /\ last = NoOp
    /\ AES \in BOOLEAN
    /\ sent \in Sendings
    /\ yt_key \in DecKeys
    /\ encrypted_text = Sent(sent)
    /\ pc = "call"
    /\ decrypted_bytes = Nothing
    /\ unpadded = Nothing
    /\ decrypted_text = NotCalled
    /\ result = NotCalled
    /\ RangeIdle
    /\ upstream = << >>

\* Lines 97-98
YtNone ==
    /\ pc = "call"
    /\ encrypted_text = Nothing
    /\ result' = NoneValue
    /\ pc' = "done"
    /\ UNCHANGED <<AES, encrypted_text, yt_key, sent, decrypted_bytes,
                   unpadded, decrypted_text>>
    /\ UNCHANGED <<cacheVars, rangeVars, log, upstream>>

\* Line 144: decrypted_text = decrypt_aes(encrypted_text, key)
DecryptAes ==
    /\ pc = "call"
    /\ IsSet(encrypted_text)
    /\ LET r == decrypt_aes(Val(encrypted_text), yt_key, AES) IN
        /\ decrypted_bytes' = r.decrypted
        /\ unpadded' = r.unpadded
        /\ decrypted_text' = r.out
        /\ result' = IF r.out.kind = "raise" THEN r.out ELSE result
        /\ pc' = IF r.out.kind = "raise" THEN "done" ELSE "trim"
    /\ UNCHANGED <<AES, encrypted_text, yt_key, sent>>
    /\ UNCHANGED <<cacheVars, rangeVars, log, upstream>>

\* Lines 147-153
Trim ==
    /\ pc = "trim"
    /\ result' = trim_quotes(decrypted_text.text)
    /\ pc' = "done"
    /\ UNCHANGED <<AES, encrypted_text, yt_key, sent, decrypted_bytes,
                   unpadded, decrypted_text>>
    /\ UNCHANGED <<cacheVars, rangeVars, log, upstream>>

CodecNext == YtNone \/ DecryptAes \/ Trim

CodecSpec == CodecInit /\ [][CodecNext]_vars

----------------------------------------------------------------------------
(* One Coinglass time-series call, after its symbol lookup *)

\* "1h" "4h" "4H" "24h" "1d" "1D" "15m" "1M" "1w" "1W" "2w" "h" "xh" ""
Tokens ==
    { <<49, 104>>, <<52, 104>>, <<52, 72>>, <<50, 52, 104>>, <<49, 100>>,
      <<49, 68>>, <<49, 53, 109>>, <<49, 77>>, Token1w, <<49, 87>>,
      <<50, 119>>, <<104>>, <<120, 104>>, << >> }

\* The defaults granularity="1h", lookback_count=100 of the series methods
DefaultGranularity == <<49, 104>>
DefaultLookback == 100

\* Windows stay below 2^31 ms: TLC's integers are 32 bits wide, Python's
\* are not.
Lookbacks == {1, 3}
RangeArgs ==
    (Tokens \X Lookbacks) \cup {<<DefaultGranularity, DefaultLookback>>}
RangeNows == {0, 30}
Symbols == { <<98, 116, 99>>, <<66, 84, 67>> }      \* "btc" "BTC"

\* What the vendor's ticker list names for the symbol: "P" on "E".
VendorPair == <<80>>
VendorExName == <<69>>

RangeInit ==
    /\ now \in RangeNows
    /\ proc = "down"
    /\ cache = [c \in Clients |-> EmptyMap]
    /\ file = MapFile(EmptyMap)
    /\ latest = EmptyMap
    /\ saveFailures = 0
    /\ last = NoOp
    /\ CodecIdle
    /\ method \in SeriesMethods
    /\ symbol \in Symbols
    /\ \E a \in RangeArgs : granularity = a[1] /\ lookback_count = a[2]
    /\ rpc = IF method \in WindowedMethods THEN "range" ELSE "normalize"
    /\ time_range = NoRange
    /\ api_granularity = Nothing
    /\ url = NoUrl
    /\ log = << >>
    /\ upstream = << >>

\* Lines 343, 365, 386
CalculateTimeRange ==
    /\ rpc = "range"
    /\ time_range' = calculate_time_range(granularity, lookback_count, now)
    /\ rpc' = IF time_range'.kind = "raise" THEN "done" ELSE "normalize"
    /\ UNCHANGED <<method, symbol, granularity, lookback_count,
                   api_granularity, url>>
    /\ UNCHANGED <<cacheVars, codecVars, log, upstream>>

\* Lines 344, 366, 387, 402
NormalizeGranularity ==
    /\ rpc = "normalize"
    /\ api_granularity' = Just(normalize_granularity(granularity))
    /\ rpc' = "url"
    /\ UNCHANGED <<method, symbol, granularity, lookback_count, time_range,
                   url>>
    /\ UNCHANGED <<cacheVars, codecVars, log, upstream>>

\* Lines 346, 368, 389, 401-405
BuildUrl ==
    /\ rpc = "url"
    /\ url' = IF method \in WindowedMethods
              THEN series_url(method, VendorExName, VendorPair,
                              Val(api_granularity), time_range)
              ELSE trade_amount_url(upper(symbol), Val(api_granularity),
                                    lookback_count)
    /\ rpc' = "done"
    /\ UNCHANGED <<method, symbol, granularity, lookback_count, time_range,
                   api_granularity>>
    /\ UNCHANGED <<cacheVars, codecVars, log, upstream>>

RangeNext == CalculateTimeRange \/ NormalizeGranularity \/ BuildUrl

RangeSpec == RangeInit /\ [][RangeNext]_vars

----------------------------------------------------------------------------
(* The vendors' answers *)

\* Line 266: the key the `user` response header is encrypted under
CoinglassKey ==
    <<89, 50, 57, 112, 98, 109, 100, 115, 89, 88, 78, 122, 76, 50, 70, 119>>

\* Lines 87-153: yt(encrypted_text, key)
yt(text, k, aesBound) ==
    IF ~IsSet(text) THEN NoneValue
    ELSE LET d == decrypt_aes(Val(text), k, aesBound).out IN
         IF d.kind = "raise" THEN d ELSE trim_quotes(d.text)

\* The JSON bodies and the payloads the vendors send, as their characters.
DocText(d) ==
    CASE d = "rows"    -> <<91, 91, 48, 44, 49, 44, 50, 44, 51, 44, 52, 44,
                            53, 93, 93>>            \* [[0,1,2,3,4,5]]
      [] d = "tickers" ->                           \* [{"instrument":
            <<91, 123, 34, 105, 110, 115, 116, 114, \*   {"instrumentId":"P",
              117, 109, 101, 110, 116, 34, 58, 123, \*    "exName":"E"}}]
              34, 105, 110, 115, 116, 114, 117, 109, 101, 110, 116, 73, 100,
              34, 58, 34, 80, 34, 44, 34, 101, 120, 78, 97, 109, 101, 34, 58,
              34, 69, 34, 125, 125, 93>>
      [] d = "empty_list"   -> <<91, 93>>                           \* []
      [] d = "object"       -> <<123, 34, 112, 34, 58, 49, 125>>    \* {"p":1}
      [] d = "empty_object" -> <<123, 125>>                         \* {}
      [] d = "quoted"       -> <<34, 97, 98, 99, 34>>               \* "abc"
      [] d = "quote"        -> <<34>>                               \* "
      [] d = "empty"        -> << >>
      [] d = "null"         -> <<110, 117, 108, 108>>               \* null
      [] d = "prices"       ->                      \* {"bitcoin":{"cny":1}}
            <<123, 34, 98, 105, 116, 99, 111, 105, 110, 34, 58, 123, 34, 99,
              110, 121, 34, 58, 49, 125, 125>>
      [] d = "candles"      ->      \* {"code":"00000","data":[[0,1]]}
            <<123, 34, 99, 111, 100, 101, 34, 58, 34, 48, 48, 48, 48, 48, 34,
              44, 34, 100, 97, 116, 97, 34, 58, 91, 91, 48, 44, 49, 93, 93,
              125>>
      [] d = "candle_error" ->      \* {"code":"40034","msg":"x"}
            <<123, 34, 99, 111, 100, 101, 34, 58, 34, 52, 48, 48, 51, 52, 34,
              44, 34, 109, 115, 103, 34, 58, 34, 120, 34, 125>>
      [] d = "candle_no_data" ->    \* {"code":"00000"}
            <<123, 34, 99, 111, 100, 101, 34, 58, 34, 48, 48, 48, 48, 48, 34,
              125>>

\* response.json(): the parsed body; for Coinglass the envelope's "data"
\* member when it is sent in the clear
Bodies ==
    [d \in {"rows", "tickers", "empty_list", "object", "empty_object",
            "quoted", "quote", "empty", "null", "prices", "candles",
            "candle_error", "candle_no_data"} |-> json_loads(DocText(d))]

\* One HTTP answer: what requests.get raises, the status, what
\* response.json() raises on a body that is not JSON (the json module's
\* JSONDecodeError, a ValueError, with requests before 2.27; requests'
\* own JSONDecodeError, a RequestException, since), the envelope's success
\* member, and the data: doc names it, user tells whether the `user` header
\* is absent ("None") or names the key it holds, pad and zip how the vendor
\* padded and compressed the payload.
Response(raises, status_code, json_raises, success, user, doc, pad, zip) ==
    [raises |-> raises, status_code |-> status_code,
     json_raises |-> json_raises, success |-> success, user |-> user,
     doc |-> doc, pad |-> pad, zip |-> zip]

NoResponse == Response("", 0, "", FALSE, "", "", "", FALSE)

\* requests.exceptions.RequestException and its subclasses
RequestExceptions == {"ConnectionError", "HTTPError", "RequestsJSONDecodeError"}

\* Lines 570-575 and 714-719: requests.get, raise_for_status, json
fetch_json(resp) ==
    IF resp.raises # "" THEN Raise(resp.raises, << >>)
    ELSE IF resp.status_code >= 400 THEN Raise("HTTPError", << >>)
    ELSE IF resp.json_raises # "" THEN Raise(resp.json_raises, << >>)
    ELSE upstream.bodies[resp.doc]

\* Answers the caller gets no data from: no connection, a server error, a
\* body that is not JSON (under either version of requests)
Failures ==
    { Response("ConnectionError", 0, "", FALSE, "", "", "", FALSE),
      Response("", 500, "", FALSE, "", "", "", FALSE),
      Response("", 200, "RequestsJSONDecodeError", FALSE, "", "", "", FALSE),
      Response("", 200, "JSONDecodeError", FALSE, "", "", "", FALSE) }

\* A 200 answer with a JSON body; Coinglass envelopes say success
Answer(user, doc, pad, zip) == Response("", 200, "", TRUE, user, doc, pad, zip)

\* Coinglass answers that carry the `user` header: each payload under the
\* right key with PKCS7 padding, then one compressed, one zero-padded and
\* one whose header holds a key of five characters
EncryptedResponses ==
    {Answer("key16", d, "pkcs7", FALSE) :
        d \in {"rows", "tickers", "empty_list", "object", "quoted", "quote",
               "empty", "null"}}
        \cup { Answer("key16", "rows", "pkcs7", TRUE),
               Answer("key16", "rows", "zero", FALSE),
               Answer("short", "rows", "pkcs7", FALSE) }

\* Lines 259-267 on an answer that carries the `user` header: the key from
\* the header, then the data under that key
decrypt_data(resp, aesBound) ==
    LET header == Sent([plain |-> encode_utf8(IF resp.user = "short"
                                              THEN KeyShort ELSE Key16),
                        pad |-> "pkcs7", key |-> CoinglassKey, wire |-> "b64"])
        payload == encode_utf8(DocText(resp.doc))
        data == IF resp.doc = "null" THEN Nothing
                ELSE Sent([plain |-> IF resp.zip THEN Gzip(payload)
                                     ELSE payload,
                           pad |-> resp.pad, key |-> Key16, wire |-> "b64"])
        k == yt(header, CoinglassKey, aesBound)
    IN IF k.kind = "raise" THEN k ELSE yt(data, k.text, aesBound)

\* What the answers explored hold: each JSON body as response.json()
\* returns it, and each encrypted payload as yt returns it or raises
Upstream(aesBound) ==
    [bodies |-> Bodies,
     decrypted |-> [r \in EncryptedResponses |-> decrypt_data(r, aesBound)]]

----------------------------------------------------------------------------
(* The market-data clients *)

\* "cached_data = self.cache.get(cache_key); if cached_data:" the value
\* get returns, when it returns one and the value is truthy
cached(c, m, key, t) ==
    IF key \in DOMAIN m /\ Fresh(c, m[key][1], t) /\ truthy(m[key][2])
    THEN Just(m[key][2]) ELSE Nothing

\* One call of a client method: the cache key, the arguments the key leaves
\* out, the entry the map held for the key when the call began, whether a
\* request went upstream and what came back, what yt made of it, and what
\* the method returned or raised.
Call(method_name, key, args, m, requested, resp, text, ret) ==
    [method |-> method_name, key |-> key, args |-> args,
     held |-> IF key \in DOMAIN m THEN Just(m[key]) ELSE Nothing,
     requested |-> requested, resp |-> resp, text |-> text, ret |-> ret]

\* What a client method leaves behind: its call, the cache map, and whether
\* it called cache.set
Done(call, m, stored) == [call |-> call, map |-> m, stored |-> stored]

\* Lines 552-584: _make_request(endpoint, params, cache_key)
_make_request(m, cache_key, resp, t) ==
    LET hit == cached("price", m, cache_key, t)
        r == fetch_json(resp)
        call(requested, rsp, ret) ==
            Call("_make_request", cache_key, << >>, m, requested, rsp,
                 NotCalled, ret)
    IN IF IsSet(hit) THEN Done(call(FALSE, NoResponse, Val(hit)), m, FALSE)
       ELSE IF r.kind = "raise"
       THEN Done(call(TRUE, resp, IF r.type \in RequestExceptions
                                  THEN NoneValue ELSE r), m, FALSE)
       ELSE Done(call(TRUE, resp, r), Store(m, cache_key, r, t), TRUE)

\* Lines 723 and 1267: data.get("code") == "00000"
candle_code_ok(data) ==
    LET code == <<99, 111, 100, 101>> IN
    HasKey(data, code) /\ Lookup(data, code) = Str(<<48, 48, 48, 48, 48>>)

\* A candlestick fetch that caches whatever the vendor answered.
candle_any(data) == TRUE

\* Line 723: data.get("code") == "00000" and "data" in data
candle_ok(data) == candle_code_ok(data) /\ HasKey(data, <<100, 97, 116, 97>>)

\* Lines 674-733: get_candle_data(symbol, granularity, limit, k_line_type)
get_candle_data(m, cache_key, args, resp, t) ==
    LET hit == cached("price", m, cache_key, t)
        r == fetch_json(resp)
        call(ret) == Call("get_candle_data", cache_key, args, m, TRUE, resp,
                          NotCalled, ret)
    IN IF r.kind = "raise"
       THEN Done(call(IF r.type \notin RequestExceptions THEN r
                      ELSE IF IsSet(hit) THEN Val(hit) ELSE NoneValue),
                 m, FALSE)
       ELSE IF r.kind # "dict"
       THEN Done(call(Raise("AttributeError", << >>)), m, FALSE)
       ELSE IF candle_ok(r)
       THEN Done(call(r), Store(m, cache_key, r, t), TRUE)
       ELSE Done(call(r), m, FALSE)

\* A parse step that lets the JSON error out.
json_loads_strict(d) == IF d.kind = "str" THEN json_loads(d.text) ELSE d

\* Lines 269-273: json.loads on a str, the str itself where that fails
json_loads_or_text(d) ==
    IF d.kind # "str" THEN d
    ELSE LET j == json_loads(d.text) IN IF j.kind = "raise" THEN d ELSE j

\* Lines 213-280: get_coinglass_data(url)
get_coinglass_data(m, u, resp, t) ==
    LET cache_key == <<"coinglass_", u>>
        hit == cached("coinglass", m, cache_key, t)
        call(requested, rsp, text, ret) ==
            Call("get_coinglass_data", cache_key, << >>, m, requested, rsp,
                 text, ret)
        none(text) == Done(call(TRUE, resp, text, NoneValue), m, FALSE)
    IN IF IsSet(hit)
       THEN Done(call(FALSE, NoResponse, NotCalled, Val(hit)), m, FALSE)
       ELSE IF resp.raises # "" \/ resp.status_code # 200
               \/ resp.json_raises # "" \/ ~resp.success
       THEN none(NotCalled)
       ELSE IF resp.user = "None"
       THEN Done(call(TRUE, resp, NotCalled, upstream.bodies[resp.doc]), m,
                 FALSE)
       ELSE LET text == upstream.decrypted[resp]
                data == json_loads_or_text(text)
            IN IF text.kind = "raise" \/ data.kind = "raise" THEN none(text)
               ELSE Done(call(TRUE, resp, text, data),
                         Store(m, cache_key, data, t), TRUE)

\* Lines 294-308 of get_symbol_info, on what the ticker search returned:
\* pair and exName, or the exception raised
get_symbol_info(data) ==
    LET info(raises, pair, exName) ==
            [raises |-> raises, pair |-> pair, exName |-> exName]
        none == info("", NoneValue, NoneValue)
        InstrumentKey == <<105, 110, 115, 116, 114, 117, 109, 101, 110, 116>>
        InstrumentIdKey == InstrumentKey \o <<73, 100>>
        ExNameKey == <<101, 120, 78, 97, 109, 101>>
    IN IF ~truthy(data) THEN none
       ELSE IF data.kind = "int" THEN info("TypeError", NoneValue, NoneValue)
       ELSE IF data.kind = "dict" THEN info("KeyError", NoneValue, NoneValue)
       ELSE IF data.kind = "str" THEN none
       ELSE LET first == data.text[1] IN
            IF first.kind \in {"int", "None"}
            THEN info("TypeError", NoneValue, NoneValue)
            ELSE IF first.kind # "dict" \/ ~HasKey(first, InstrumentKey)
            THEN none
            ELSE LET instrument == Lookup(first, InstrumentKey) IN
                 IF instrument.kind # "dict"
                 THEN info("TypeError", NoneValue, NoneValue)
                 ELSE IF ~HasKey(instrument, InstrumentIdKey)
                         \/ ~HasKey(instrument, ExNameKey)
                 THEN info("KeyError", NoneValue, NoneValue)
                 ELSE info("", Lookup(instrument, InstrumentIdKey),
                           Lookup(instrument, ExNameKey))

----------------------------------------------------------------------------
(* The tools *)

\* A text a tool returns, by what it says; the wording is left out.
Text(tag) == [kind |-> "str", text |-> << >>, type |-> tag, cause |-> << >>]

\* The format_* methods and the formatting loops of the tools build a str
\* from the data, or raise where the data has not the shape they index.
formatted(fmt) ==
    IF fmt = "raise" THEN Raise("TypeError", << >>) ELSE Text("formatted")

\* A tool body that lets the exception out.
reraise(r) == r

\* "except Exception as e: return f'...: {str(e)}'" around every tool body
except_exception(r) == IF r.kind = "raise" THEN Text("error") ELSE r

\* What a tool leaves behind: the client calls it made, the cache map of
\* the client it used, whether cache.set was called, the tool's result
Served(calls, m, stored, r) ==
    [calls |-> calls, map |-> m, stored |-> stored, text |-> except_exception(r)]

CoinId == <<98, 105, 116, 99, 111, 105, 110>>       \* "bitcoin"

PriceTools ==
    {"get_coin_price", "get_trending_coins", "get_coin_detail",
     "get_global_market_data", "search_coins", "get_common_coins_prices"}

\* Lines 615, 636, 659, 665, 671: the cache key of each tool's request
price_key(tool) ==
    LET Cny == <<99, 110, 121>>
        CnyUsd == Cny \o <<44, 117, 115, 100>>
        CommonIds ==        \* ",".join of the ids of get_common_coins()
            <<98, 105, 116, 99, 111, 105, 110, 44, 101, 116, 104, 101, 114,
              101, 117, 109, 44, 116, 101, 116, 104, 101, 114, 44, 98, 105,
              110, 97, 110, 99, 101, 99, 111, 105, 110, 44, 114, 105, 112,
              112, 108, 101, 44, 99, 97, 114, 100, 97, 110, 111, 44, 100,
              111, 103, 101, 99, 111, 105, 110, 44, 115, 111, 108, 97, 110,
              97, 44, 112, 111, 108, 107, 97, 100, 111, 116, 44, 108, 105,
              116, 101, 99, 111, 105, 110>>
    IN
    CASE tool = "get_coin_price"          -> <<"price_", CoinId, Cny>>
      [] tool = "get_common_coins_prices" -> <<"price_", CommonIds, CnyUsd>>
      [] tool = "get_coin_detail"         -> <<"detail_", CoinId>>
      [] tool = "get_trending_coins"      -> <<"trending">>
      [] tool = "search_coins"            -> <<"coinlist">>
      [] tool = "get_global_market_data"  -> <<"global">>

\* Lines 1066-1238: the six tools served through _make_request
price_tool(tool, m, resp, fmt, t) ==
    LET r == _make_request(m, price_key(tool), resp, t)
        data == r.call.ret
        listed == CASE data.kind = "dict" -> HasKey(data, CoinId)
                    [] data.kind = "list" ->
                           \E i \in 1..Len(data.text) : data.text[i] = Str(CoinId)
                    [] OTHER -> FALSE
    IN Served(<<r.call>>, r.map, r.stored,
              IF data.kind = "raise" THEN data
              ELSE IF ~truthy(data) THEN Text("no_data")
              ELSE IF tool = "get_coin_price" /\ ~listed THEN Text("no_data")
              ELSE formatted(fmt))

\* Lines 1241-1276: get_k_line_data(symbol, granularity, limit, k_line_type)
k_line_tool(m, k_line_type, resp, fmt, t) ==
    LET BTCUSDT == <<66, 84, 67, 85, 83, 68, 84>>
        r == get_candle_data(m, <<"candle_", BTCUSDT, DefaultGranularity,
                                  DefaultLookback>>,
                             <<k_line_type>>, resp, t)
        data == r.call.ret
    IN Served(<<r.call>>, r.map, r.stored,
              IF data.kind = "raise" THEN data
              ELSE IF ~truthy(data) THEN Text("no_data")
              ELSE IF data.kind # "dict" THEN Raise("AttributeError", << >>)
              ELSE IF ~candle_code_ok(data) THEN Text("no_data")
              ELSE formatted(fmt))

\* The Coinglass tools, each named by the client method it serves
\* (coinglass_get_kline_data calls get_kline_data, and so on).
\* Lines 1401-1448: the two tools that ask by symbol alone
coinglass_tool(mth, m, sym, g, n, resp, fmt, t) ==
    LET u == IF mth = "get_trade_amount"
             THEN trade_amount_url(upper(sym), normalize_granularity(g), n)
             ELSE Url("capi.coinglass.com", "/api/openInterest/ex/info",
                      <<upper(sym)>>, "", << >>, 0, 0, 0)
        r == get_coinglass_data(m, u, resp, t)
    IN Served(<<r.call>>, r.map, r.stored,
              IF ~truthy(r.call.ret) THEN Text("no_data") ELSE formatted(fmt))

\* Lines 1280-1398: the four tools that look the symbol up first
symbol_tool(mth, m, sym, g, n, r1, r2, fmt, t) ==
    LET series(a, b) ==
            Served(<<a.call, b.call>>, b.map, a.stored \/ b.stored,
                   IF ~truthy(b.call.ret) THEN Text("no_data")
                   ELSE IF mth = "get_coin_info" THEN Text("formatted")
                   ELSE formatted(fmt))
        found(a, info, range) ==
            IF info.raises # ""
            THEN Served(<<a.call>>, a.map, a.stored, Raise(info.raises, << >>))
            ELSE IF ~truthy(info.pair) \/ ~truthy(info.exName)
            THEN Served(<<a.call>>, a.map, a.stored, Text("no_data"))
            ELSE IF range.kind = "raise"
            THEN Served(<<a.call>>, a.map, a.stored, Raise(range.type, << >>))
            ELSE series(a, get_coinglass_data(
                     a.map,
                     IF mth = "get_coin_info"
                     THEN Url("fapi.coinglass.com", "/api/ticker",
                              <<info.exName.text, info.pair.text>>, "", << >>,
                              0, 0, 0)
                     ELSE series_url(mth, info.exName.text, info.pair.text,
                                     normalize_granularity(g), range),
                     r2, t))
        looked_up(a) ==
            found(a, get_symbol_info(a.call.ret),
                  IF mth \in WindowedMethods
                  THEN calculate_time_range(g, n, t) ELSE NoRange)
    IN looked_up(get_coinglass_data(
           m, Url("fapi.coinglass.com", "/api/select/coins/tickers",
                  <<upper(sym)>>, "", << >>, 0, 0, 0),
           r1, t))

----------------------------------------------------------------------------
(* The server at work: tools called one at a time while the clock runs *)

MaxCalls == 2           \* tool calls served per run
ClientTicks == {10}     \* minutes between two tool calls

ToolSymbol == <<98, 116, 99>>                       \* "btc"

\* The calls explored: every answer on one tool of each kind, and on the
\* other tools a failure, a good answer, and a good answer the formatter
\* raises on.
Inputs ==
    LET Unreachable == Response("ConnectionError", 0, "", FALSE, "", "", "", FALSE)
        Body(doc) == Answer("", doc, "", FALSE)
        Plain(doc) == Answer("None", doc, "", FALSE)
        Encrypted(doc) == Answer("key16", doc, "pkcs7", FALSE)
        Formats == {"text", "raise"}
        SymbolMethods == WindowedMethods \cup {"get_coin_info"}
        DirectMethods == {"get_trade_amount", "get_exchange_position"}
    IN
    [price |->
        ({"get_coin_price"}
            \X (Failures \cup {Body("prices"), Body("empty_object"),
                               Body("rows")})
            \X {"text"})
        \cup (PriceTools \X {Body("prices")} \X Formats)
        \cup (PriceTools \X {Unreachable} \X {"text"}),
     candle |->
        ({"MARKET"}
            \X (Failures \cup {Body("candles"), Body("candle_error"),
                               Body("candle_no_data"), Body("empty_list")})
            \X {"text"})
        \cup ({"MARKET"} \X {Body("candles")} \X Formats)
        \cup ({"MARK"} \X {Body("candles"), Unreachable} \X {"text"}),
     direct |->
        ({"get_trade_amount"}
            \X (Failures \cup EncryptedResponses
                    \cup { Response("", 200, "", FALSE, "", "", "", FALSE),
                           Plain("rows"), Plain("tickers"),
                           Plain("empty_list") })
            \X {"text"})
        \cup (DirectMethods \X {Encrypted("rows")} \X Formats)
        \cup (DirectMethods \X {Unreachable} \X {"text"}),
     symbol |->
        ({"get_kline_data"} \X {DefaultGranularity}
            \X {Unreachable, Encrypted("rows"), Encrypted("object")}
            \X {Unreachable} \X {"text"})
        \cup ({"get_kline_data"} \X {DefaultGranularity}
                  \X {Encrypted("tickers"), Plain("tickers")}
                  \X { Response("", 500, "", FALSE, "", "", "", FALSE),
                       Encrypted("rows"), Plain("rows"),
                       Encrypted("empty_list") }
                  \X {"text"})
        \cup (SymbolMethods \X {DefaultGranularity}
                  \X {Encrypted("tickers")} \X {Encrypted("rows")}
                  \X Formats)
        \cup (SymbolMethods \X {DefaultGranularity} \X {Unreachable}
                  \X {Unreachable} \X {"text"})
        \cup (WindowedMethods \X {<<LetterH>>} \X {Encrypted("tickers")}
                  \X {Encrypted("rows")} \X {"text"})]

\* crypto_service is constructed when the module is loaded (line 1063);
\* the file holds no entry yet.
ClientInit ==
    /\ now = 0
    /\ proc = "up"
    /\ cache = [c \in Clients |-> EmptyMap]
    /\ file = MapFile(EmptyMap)
    /\ latest = EmptyMap
    /\ saveFailures = 0
    /\ last = NoOp
    /\ AES \in BOOLEAN
    /\ encrypted_text = Nothing
    /\ yt_key = << >>
    /\ sent = NotSent
    /\ pc = "idle"
    /\ decrypted_bytes = Nothing
    /\ unpadded = Nothing
    /\ decrypted_text = NotCalled
    /\ result = NotCalled
    /\ RangeIdle
    /\ upstream = Upstream(AES)

\* One tool call from its first line to its return: the client's cache map
\* and, where cache.set ran, the file _save_cache wrote (lines 69-77)
Serve(tool, c, args, r) ==
    /\ proc = "up"
    /\ Len(log) < MaxCalls
    /\ log' = Append(log, [tool |-> tool, args |-> args, time |-> now,
                           calls |-> r.calls, text |-> r.text])
    /\ cache' = [cache EXCEPT ![c] = r.map]
    /\ file' = IF r.stored THEN _save_cache(r.map, file, "ok") ELSE file
    /\ last' = [NoOp EXCEPT !.op = "tool", !.c = c]
    /\ UNCHANGED <<now, proc, latest, saveFailures>>
    /\ UNCHANGED <<codecVars, rangeVars, upstream>>

PriceTool(tool, resp, fmt) ==
    Serve(tool, "price", << >>,
          price_tool(tool, cache["price"], resp, fmt, now))

GetKLineData(k_line_type, resp, fmt) ==
    Serve("get_k_line_data", "price", <<k_line_type>>,
          k_line_tool(cache["price"], k_line_type, resp, fmt, now))

CoinglassTool(mth, g, resp, fmt) ==
    Serve(mth, "coinglass", <<g>>,
          coinglass_tool(mth, cache["coinglass"], ToolSymbol, g,
                         DefaultLookback, resp, fmt, now))

CoinglassSymbolTool(mth, g, r1, r2, fmt) ==
    Serve(mth, "coinglass", <<g>>,
          symbol_tool(mth, cache["coinglass"], ToolSymbol, g, DefaultLookback,
                      r1, r2, fmt, now))

\* The clock, between two tool calls: the first call is made at minute 0
ClientTick(d) == 0 < Len(log) /\ Len(log) < MaxCalls /\ Tick(d)

ClientNext ==
    \/ \E i \in Inputs.price : PriceTool(i[1], i[2], i[3])
    \/ \E i \in Inputs.candle : GetKLineData(i[1], i[2], i[3])
    \/ \E i \in Inputs.direct :
          CoinglassTool(i[1], DefaultGranularity, i[2], i[3])
    \/ \E i \in Inputs.symbol :
          CoinglassSymbolTool(i[1], i[2], i[3], i[4], i[5])
    \/ \E d \in ClientTicks : ClientTick(d)

ClientSpec == ClientInit /\ [][ClientNext]_vars

----------------------------------------------------------------------------
(* CryptoCache: claims *)

LastKeyHeld == last.key \in DOMAIN cache[last.c]
LastAge == now - cache[last.c][last.key][1]

\* C1: get(key) returns the stored value if and only if the key is present
\* and now - timestamp is strictly less than the TTL of that cache object;
\* at an age equal to or above the TTL it returns None.
C1_GetIffFresh ==
    last.op = "get" =>
        /\ (last.ret # None) <=>
               (LastKeyHeld /\ LastAge < cache_duration(last.c))
        /\ last.ret # None => last.ret = cache[last.c][last.key][2]

\* A get() of an entry whose age is exactly the TTL has answered None, and
\* the other object, with the longer TTL, still holds an entry of that age.
C1_Witness ==
    /\ last.op = "get" /\ last.c = "coinglass"
    /\ LastKeyHeld /\ LastAge = CoinglassCacheDuration
    /\ last.ret = None
    /\ \E k \in DOMAIN cache["price"] :
          now - cache["price"][k][1] = CoinglassCacheDuration

\* C2 (as claimed): while no write has failed, every key set by either
\* object is, after a restart, in the freshly loaded caches with its latest
\* (timestamp, value).
C2_PersistedAcrossRestart ==
    (last.op = "start" /\ saveFailures = 0) =>
        \A c \in Clients : \A k \in DOMAIN latest :
            k \in DOMAIN cache[c] /\ cache[c][k] = latest[k]

\* C3 (as claimed): when set(key, value) returns, the entry is (now, value)
\* and the file holds the whole in-memory map of that object.
C3_SetPersists ==
    last.op = "set" =>
        /\ LastKeyHeld /\ cache[last.c][last.key] = <<now, last.data>>
        /\ file = MapFile(cache[last.c])

\* C3 (amended): when set(key, value) returns, the entry is (now, value)
\* whatever the map held before, and if the write did not fail the file holds
\* the whole in-memory map of that object; a failed write is swallowed and
\* leaves the file as it was or truncated.
C3_SetPersistsUnlessSaveFails ==
    last.op = "set" =>
        /\ LastKeyHeld /\ cache[last.c][last.key] = <<now, last.data>>
        /\ last.io = "ok" => file = MapFile(cache[last.c])
        /\ last.io = "dump_fails" => file = BadFile("truncated")

\* A set() at minute 30 has replaced an entry of its key, beside an older
\* entry of the other key, and the file holds both.
C3_Witness ==
    /\ last.op = "set" /\ last.io = "ok" /\ now = MaxNow
    /\ DOMAIN cache[last.c] = Keys
    /\ \E k \in Keys : cache[last.c][k][1] = 0
    /\ latest # EmptyMap /\ file = MapFile(cache[last.c])

SetOf(c, k) == last'.op = "set" /\ last'.c = c /\ last'.key = k

\* C4 (as claimed): no step deletes an entry. While the process runs, an
\* entry of an object's map is kept unless set() on that object overwrites
\* its key; an entry of the file is kept by every step whose write did not
\* fail, unless a set() overwrites its key.
C4_NeverDeleted ==
    [][ /\ \A c \in Clients : \A k \in DOMAIN cache[c] :
              (proc' = "up" /\ ~SetOf(c, k)) =>
                  (k \in DOMAIN cache'[c] /\ cache'[c][k] = cache[c][k])
        /\ \A k \in DOMAIN file.map :
              (last'.io \in {None, "ok"} /\ ~(\E c \in Clients : SetOf(c, k))) =>
                  (k \in DOMAIN file'.map /\ file'.map[k] = file.map[k])
      ]_vars

\* C5 (as claimed): construction never raises, and on a file that is
\* missing, unreadable or not deserializable both maps start empty.
C5_ConstructNeverRaises ==
    last.op = "start" =>
        /\ last.err = None /\ proc = "up"
        /\ file.kind # "map" => \A c \in Clients : cache[c] = EmptyMap

----------------------------------------------------------------------------
(* yt: claims *)

LastByte(d) == d[Len(d)]

\* Written out from PKCS7, not from the check of decrypt_aes.
ValidPadding(d) ==
    /\ LastByte(d) \in 1..16
    /\ \A i \in (Len(d) - LastByte(d) + 1)..Len(d) : d[i] = LastByte(d)

Decrypted == IsSet(decrypted_bytes) /\ Val(decrypted_bytes) # << >>

\* C6: once the blocks are decrypted, with p the last byte: if p is outside
\* 1..16 or one of the last p bytes differs from p, yt raises and nothing
\* is unpadded or returned; bytes are removed only when both checks pass,
\* and then exactly the last p bytes.
C6_PaddingValidated ==
    Decrypted =>
        LET d == Val(decrypted_bytes) IN
        /\ ~ValidPadding(d) =>
              /\ ~IsSet(unpadded)
              /\ pc = "done" /\ result.kind = "raise"
        /\ ValidPadding(d) =>
              /\ IsSet(unpadded)
              /\ Val(unpadded) = SubSeq(d, 1, Len(d) - LastByte(d))

\* Bytes were decrypted whose last byte p is in 1..16 while another of the
\* last p bytes differs from p, and yt has raised.
C6_Witness ==
    /\ Decrypted
    /\ LastByte(Val(decrypted_bytes)) \in 2..16
    /\ ~ValidPadding(Val(decrypted_bytes))
    /\ pc = "done" /\ result.kind = "raise" /\ result.cause = <<"ValueError">>

StartsWithGzipMagic(u) ==
    Len(u) >= 2 /\ u[1] = GzipMagic1 /\ u[2] = GzipMagic2

\* C7 (as claimed): every unpadded plaintext that starts with 1F 8B, of any
\* length, is handed to the gzip reader, and decrypt_aes answers with the
\* inflated text (or the reader's failure); every other plaintext is
\* decoded as UTF-8 with replacement and yields a str.
C7_GzipSniff ==
    IsSet(unpadded) =>
        LET u == Val(unpadded)
            g == decompress_gzip(u)
        IN IF StartsWithGzipMagic(u)
           THEN decrypted_text = (IF g.kind = "raise" THEN Wrapped(g) ELSE g)
           ELSE decrypted_text = decode_replace(u)

\* C8 (as claimed): whatever str decrypt_aes returned, yt returns it without
\* its first character iff that is a double quote and without its last
\* character iff that is a double quote, and raises nothing.
C8_TrimNeverRaises ==
    (pc = "done" /\ decrypted_text.kind = "str") =>
        LET t == decrypted_text.text
            first == IF t # << >> /\ t[1] = DoubleQuote THEN 2 ELSE 1
            end == IF t # << >> /\ t[Len(t)] = DoubleQuote
                   THEN Len(t) - 1 ELSE Len(t)
        IN /\ result.kind = "str"
           /\ result.text = SubSeq(t, first, end)

RoundTrip ==
    /\ pc = "done"
    /\ sent.pad = "pkcs7" /\ sent.wire = "b64" /\ yt_key = sent.key
    /\ Utf8ValidFrom(sent.plain, 1)

QuoteStripped(P) ==
    SubSeq(P, IF P # << >> /\ P[1] = DoubleQuote THEN 2 ELSE 1,
              IF P # << >> /\ P[Len(P)] = DoubleQuote
              THEN Len(P) - 1 ELSE Len(P))

C10_ErrorsWrapped ==
    (AES /\ decrypted_text.kind = "raise") =>
        /\ decrypted_text.type = "Exception"
        /\ decrypted_text.cause # << >>

----------------------------------------------------------------------------
(* calculate_time_range and normalize_granularity: claims *)

\* The table of the claim: a week for every token in "w", the magnitude
\* times the unit for "d", "h" and "m", an hour for everything else.
ClaimedSecondsPerUnit(g) ==
    LET magnitude == int(Butlast(g, 1)) IN
    IF endswith(g, 119) THEN 604800
    ELSE IF endswith(g, LetterD) /\ magnitude.kind = "int"
         THEN magnitude.n * 86400
    ELSE IF endswith(g, LetterH) /\ magnitude.kind = "int"
         THEN magnitude.n * 3600
    ELSE IF endswith(g, LetterM) /\ magnitude.kind = "int"
         THEN magnitude.n * 60
    ELSE 3600

\* C12 (as claimed): calculate_time_range(g, n) returns (start, end) with
\* end - start = S(g) * n * 1000, S(g) being a week for every week token,
\* magnitude times 86400, 3600 or 60 for a "d", "h" or "m" token, and 3600,
\* silently, for every token of unknown unit or unparseable magnitude; for
\* ("1h", 100) the span is 360000000 ms.
C12_TimeRangeTable ==
    time_range.kind # "idle" =>
        /\ time_range.kind = "tuple"
        /\ time_range.end_time - time_range.start_time
               = ClaimedSecondsPerUnit(granularity) * lookback_count * 1000
        /\ (granularity = DefaultGranularity
               /\ lookback_count = DefaultLookback) =>
               time_range.end_time - time_range.start_time = 360000000

IsWeekToken(g) == Len(g) = 2 /\ g[1] = 49 /\ g[2] \in {119, 87}

LowerChar(ch) == IF ch \in 65..90 THEN ch + 32 ELSE ch

\* C13: normalize_granularity(g) is the lowercased token read backwards,
\* except for "1w" in either letter case, which comes back as "1w"; so
\* "1h" gives "h1", "4h" gives "h4" and "1w" gives "1w".
C13_NormalizeReverses ==
    IsSet(api_granularity) =>
        LET a == Val(api_granularity)
            g == granularity
        IN /\ IsWeekToken(g) => a = <<49, 119>>
           /\ ~IsWeekToken(g) =>
                 /\ Len(a) = Len(g)
                 /\ \A i \in 1..Len(g) : a[i] = LowerChar(g[Len(g) + 1 - i])
           /\ g = <<49, 104>> => a = <<104, 49>>
           /\ g = <<52, 104>> => a = <<104, 52>>
           /\ g = <<49, 119>> => a = <<49, 119>>

\* "1W" has been normalised to "1w", unreversed.
C13_Witness ==
    /\ rpc \in {"url", "done"}
    /\ granularity = <<49, 87>>
    /\ api_granularity = Just(<<49, 119>>)

\* How the vendor reads the interval of a URL: "1w" is a week, and a unit
\* letter followed by a magnitude is that many days, hours or minutes.
WireKnown(interval) ==
    \/ interval = Token1w
    \/ /\ Len(interval) >= 2
       /\ interval[1] \in {LetterD, LetterH, LetterM}
       /\ \A i \in 2..Len(interval) : IsDigit(interval[i])

BucketSeconds(interval) ==
    IF interval = Token1w THEN 604800
    ELSE Decimal(Tail(interval)) *
            (CASE interval[1] = LetterD -> 86400
               [] interval[1] = LetterH -> 3600
               [] interval[1] = LetterM -> 60)

\* C20 (as claimed): in the URL of a windowed series, for every token of
\* one digit and one unit letter in either case, endTime - startTime is
\* lookback_count times the bucket length of the interval in that same URL.
C20_WindowAgreesWithInterval ==
    (rpc = "done" /\ method \in WindowedMethods /\ time_range.kind = "tuple"
        /\ WireKnown(url.interval) /\ Len(url.interval) = 2) =>
        url.endTime - url.startTime
            = lookback_count * BucketSeconds(url.interval) * 1000

\* A decimal magnitude followed by one unit letter, in either letter case
IsMagnitudeToken(g) ==
    /\ Len(g) >= 2
    /\ \A i \in 1..(Len(g) - 1) : IsDigit(g[i])
    /\ LowerChar(g[Len(g)]) \in {LetterD, LetterH, LetterM, 119}

\* C21 (as claimed): for every token made of a decimal magnitude followed
\* by one unit letter, the week token "1w" apart, normalize_granularity
\* returns the unit letter followed by the same magnitude: "15m" gives
\* "m15", "24h" gives "h24".
C21_MagnitudePreserved ==
    (IsSet(api_granularity) /\ IsMagnitudeToken(granularity)
        /\ ~IsWeekToken(granularity)) =>
        Val(api_granularity)
            = <<LowerChar(granularity[Len(granularity)])>>
                  \o Butlast(granularity, 1)

----------------------------------------------------------------------------
(* The clients and the tools: claims *)

\* The tool call served last, and the calls of get_coinglass_data in it
\* whose payload yt decrypted and trimmed to a str.
LastServed == log[Len(log)]
DecryptedCalls ==
    IF log = << >> THEN {}
    ELSE {i \in DOMAIN LastServed.calls :
            /\ LastServed.calls[i].method = "get_coinglass_data"
            /\ LastServed.calls[i].text.kind = "str"}

C14_ToolsReturnText == \A i \in DOMAIN log : log[i].text.kind = "str"

\* Two tool calls were served, one whose client method raised and one whose
\* payload the codec raised on.
C14_Witness ==
    /\ Len(log) = MaxCalls
    /\ \E i \in DOMAIN log[1].calls : log[1].calls[i].ret.kind = "raise"
    /\ \E i \in DOMAIN log[2].calls : log[2].calls[i].text.kind = "raise"
    /\ log[1].text.kind = "str"
    /\ log[2].text.kind = "str"

\* Every client call of every tool call served, as <<tool call, call>>, and
\* the cache object a call uses.
AllCalls == {x \in (DOMAIN log) \X (1..2) : x[2] \in DOMAIN log[x[1]].calls}
ClientOf(c) == IF c.method = "get_coinglass_data" THEN "coinglass" ELSE "price"

\* The entry a call found under its key was within its TTL.
HeldFresh(i, j) ==
    LET c == log[i].calls[j] IN
    IsSet(c.held) /\ Fresh(ClientOf(c), Val(c.held)[1], log[i].time)

\* C15 (as claimed): whenever the cache holds an entry within its TTL under
\* a call's key, whatever the stored value, the client method makes no
\* upstream request and returns the stored value.
C15_CacheFirst ==
    \A x \in AllCalls :
        LET c == log[x[1]].calls[x[2]] IN
        HeldFresh(x[1], x[2]) =>
            ~c.requested /\ c.ret = Val(c.held)[2]

\* The upstream answered a call with a successful response: HTTP 200 with a
\* JSON body, and for Coinglass an envelope that says success.
SuccessfulFetch(c) ==
    /\ c.requested
    /\ c.resp.raises = ""
    /\ c.resp.status_code = 200
    /\ c.resp.json_raises = ""
    /\ c.method = "get_coinglass_data" => c.resp.success

\* The calls of the tool call served last.
LastCalls ==
    IF log = << >> THEN {}
    ELSE {LastServed.calls[j] : j \in DOMAIN LastServed.calls}

\* The cache holds a call's return value under the call's key, stored when
\* the call was made.
StoredByLast(c) ==
    /\ c.key \in DOMAIN cache[ClientOf(c)]
    /\ cache[ClientOf(c)][c.key] = <<LastServed.time, c.ret>>

\* C16 (as claimed): when a client method got a successful response and
\* returned a value, the cache holds that value under the request's key.
C16_EveryFetchStored ==
    \A c \in LastCalls :
        (SuccessfulFetch(c) /\ c.ret.kind # "raise") => StoredByLast(c)

\* The request of a call failed: no connection, or an HTTP error status.
RequestFailed(c) ==
    c.requested /\ (c.resp.raises # "" \/ c.resp.status_code # 200)

\* C17 (as claimed): when the request of get_candle_data fails and the
\* cache holds an entry under the call's key, of whatever age,
\* get_candle_data returns the entry's value.
C17_StaleFallback ==
    \A x \in AllCalls :
        LET c == log[x[1]].calls[x[2]] IN
        (c.method = "get_candle_data" /\ RequestFailed(c) /\ IsSet(c.held))
            => c.ret = Val(c.held)[2]

\* The fetch of a call failed: the request raised, the status was not 200,
\* the body was not JSON, the Coinglass envelope said no success or the
\* codec raised on its payload, or the candlestick body was anything but
\* an object with code "00000" and a data member.
FailedFetch(c) ==
    /\ c.requested
    /\ \/ c.resp.raises # ""
       \/ c.resp.status_code # 200
       \/ c.resp.json_raises # ""
       \/ c.method = "get_coinglass_data"
            /\ (~c.resp.success \/ c.text.kind = "raise")
       \/ c.method = "get_candle_data" /\ c.resp.doc # "candles"

\* C18: a tool call leaves the entry under the key of every failed fetch as
\* it was, and when none of its fetches succeeded it leaves both cache maps
\* and the file as they were.
C18_FailedFetchKeepsCache ==
    [][Len(log') = Len(log) + 1 =>
        LET e == log'[Len(log')]
            kept(c) ==
                LET before == cache[ClientOf(c)]
                    after == cache'[ClientOf(c)]
                IN /\ c.key \in DOMAIN after <=> c.key \in DOMAIN before
                   /\ c.key \in DOMAIN before => after[c.key] = before[c.key]
        IN /\ \A j \in DOMAIN e.calls :
                 FailedFetch(e.calls[j]) => kept(e.calls[j])
           /\ (\A j \in DOMAIN e.calls :
                 FailedFetch(e.calls[j]) \/ ~e.calls[j].requested)
                => cache' = cache /\ file' = file]_vars

\* A fetch failed while the cache held a value under its key, and the
\* cache and the file hold that value still.
C18_Witness ==
    \E c \in LastCalls :
        /\ FailedFetch(c)
        /\ IsSet(c.held)
        /\ truthy(Val(c.held)[2])
        /\ cache[ClientOf(c)][c.key] = Val(c.held)
        /\ file = MapFile(cache[ClientOf(c)])

\* C19 (as claimed): when a windowed series tool has fetched and cached a
\* series and is called again with the same arguments after the clock has
\* advanced by less than the 15-minute TTL, the second call's series
\* request is answered from the cache, not sent upstream.
C19_SeriesServedFromCache ==
    (/\ Len(log) = 2
     /\ log[1].tool \in WindowedMethods
     /\ log[2].tool = log[1].tool
     /\ log[2].args = log[1].args
     /\ Len(log[1].calls) = 2
     /\ SuccessfulFetch(log[1].calls[2])
     /\ log[1].calls[2].text.kind = "str"
     /\ truthy(log[1].calls[2].ret)
     /\ log[2].time > log[1].time
     /\ log[2].time - log[1].time < CoinglassCacheDuration
     /\ Len(log[2].calls) = 2)
        => ~log[2].calls[2].requested

\* get_candle_data stored the body it fetched (lines 723-724).
CandleStored(c) ==
    /\ c.method = "get_candle_data"
    /\ SuccessfulFetch(c)
    /\ c.ret.kind = "dict"
    /\ candle_ok(c.ret)

\* get_candle_data returned the entry under its key after its request had
\* failed (lines 727-731).
CandleFellBack(c) ==
    /\ c.method = "get_candle_data"
    /\ c.requested
    /\ (c.resp.raises # "" \/ c.resp.status_code # 200
           \/ c.resp.json_raises # "")
    /\ IsSet(c.held)
    /\ c.ret = Val(c.held)[2]

\* The call that fetched the entry a later call x found under its key: the
\* last call before x that stored under that key.
FetchedFor(x) ==
    {y \in AllCalls :
        /\ y[1] < x[1]
        /\ log[y[1]].calls[y[2]].key = log[x[1]].calls[x[2]].key
        /\ CandleStored(log[y[1]].calls[y[2]])
        /\ \A z \in AllCalls :
              (y[1] < z[1] /\ z[1] < x[1]
                  /\ log[z[1]].calls[z[2]].key = log[y[1]].calls[y[2]].key)
                 => ~CandleStored(log[z[1]].calls[z[2]])}

\* C22 (as claimed): whenever get_candle_data returns a cached response
\* after its request failed, the response was fetched by a call with the
\* same arguments; symbol, granularity and limit are in the cache key, the
\* k_line_type is the argument the key leaves out.
C22_FallbackSameRequest ==
    \A x \in AllCalls :
        CandleFellBack(log[x[1]].calls[x[2]]) =>
            \A y \in FetchedFor(x) :
                /\ log[y[1]].calls[y[2]].ret = log[x[1]].calls[x[2]].ret
                /\ log[y[1]].calls[y[2]].args = log[x[1]].calls[x[2]].args

====
